---------------------------- MODULE Spec2Model ----------------------------
(***************************************************************************)
(* Model of the CCAS dashboard data pipeline:                              *)
(*   scripts/generate_json.py   build(): calibrated CSV -> snapshot JSON   *)
(*   scripts/calibrate_data.py  RAMP per-sensor loop: join two daily files *)
(*   scripts/calibrate_qaq.py   QuantAQ per-sensor loop: calibration, AQHI *)
(*   scripts/hellolamppost_integration.py  main(): snapshot -> kiosk JSON  *)
(*                                                                         *)
(* Time is counted in whole hours.  Numeric cells are integers in          *)
(* thousandths (1234 stands for 1.234).  A cell is a record with a tag:    *)
(* "nan" (pandas NaN / NaT), "num", "str" (a non-numeric string read from  *)
(* a CSV) or "none" (Python None, JSON null).                              *)
(*                                                                         *)
(* Each script is a specification of its own (SpecBuild, SpecRamp,         *)
(* SpecQaq, SpecAqhi); the variables of the other scripts stay at their    *)
(* idle value.  SpecKiosk and SpecHandoff run two scripts in sequence.     *)
(***************************************************************************)
EXTENDS Integers, Sequences, FiniteSets, TLC

VARIABLES
    now,         \* the run's current time, hours (datetime.now(tz))
    raised,      \* "" or the name of the exception that escaped the script
    \* ---- generate_json.py
    dirIdx,      \* position of build()'s loop in sorted(BASE_DIR.iterdir())
    csv,         \* what the loop found for the entry it handled last
    sensors_js,  \* build()'s result list
    written,     \* OUTPUT_JSON has been written
    \* ---- calibrate_data.py
    rIdx,        \* position of the loop in sensor_ids
    rfiles,      \* the raw files of the sensor handled last
    rstage,      \* how far the sensor handled last got
    recent_df,   \* its frame (joined, filtered, calibrated)
    saved,       \* calibrated files written so far: sensor -> rows
    \* ---- calibrate_qaq.py
    qIdx,        \* position of the loop in sensor_ids
    pc,          \* position inside the loop body
    qfile,       \* the raw file read for the current sensor
    qolder,      \* rows of the sensor's other raw files, which are not read
    df,          \* the frame of the current sensor
    rolling,     \* its 3-hour rolling means, one per row of df
    \* ---- hellolamppost_integration.py
    kIdx,        \* position of main()'s loop in the sensors of the snapshot
    kiosk_out,   \* main()'s result, in the order the entries were added
    kiosk_written \* OUTPUT_FILE has been written

vars == <<now, raised, dirIdx, csv, sensors_js, written,
          rIdx, rfiles, rstage, recent_df, saved,
          qIdx, pc, qfile, qolder, df, rolling,
          kIdx, kiosk_out, kiosk_written>>

buildVars == <<dirIdx, csv, sensors_js, written>>
rampVars  == <<rIdx, rfiles, rstage, recent_df, saved>>
qaqVars   == <<qIdx, pc, qfile, qolder, df, rolling>>
kioskVars == <<kIdx, kiosk_out, kiosk_written>>

-----------------------------------------------------------------------------
(* Cells *)

NaN     == [tag |-> "nan",  v |-> 0, s |-> ""]
None    == [tag |-> "none", v |-> 0, s |-> ""]
Num(x)  == [tag |-> "num",  v |-> x, s |-> ""]
Str(x)  == [tag |-> "str",  v |-> 0, s |-> x]

\* pd.isna / pd.notna
isna(c)  == c.tag \in {"nan", "none"}
notna(c) == ~isna(c)

\* bounds of the model
MaxRows == 2

\* the run's clock reading used by the model
Clock == 100

\* all sequences over S of length at most n
SeqUpTo(S, n) == UNION {[1..k -> S] : k \in 0..n}

\* the orders in which sort_values("DATE") may leave rows whose DATE is a
\* number: sorted by DATE, rows with equal DATE in any order (the default
\* quicksort is not stable)
SortedOrders(rows) ==
    LET n == Len(rows)
        Perms == {p \in [1..n -> 1..n] : \A i, j \in 1..n : i # j => p[i] # p[j]}
    IN {[i \in 1..n |-> rows[p[i]]] : p \in
           {q \in Perms : \A i, j \in 1..n :
               i < j => rows[q[i]]["DATE"].v <= rows[q[j]]["DATE"].v}}

MaxOf(S) == CHOOSE x \in S : \A y \in S : y <= x
MinOf(S) == CHOOSE x \in S : \A y \in S : x <= y

Range(f) == {f[i] : i \in DOMAIN f}

\* newest_csv found no file (generate_json.py); no file read (calibrate_qaq.py)
NoFile  == [kind |-> "none", cols |-> {}, rows |-> <<>>]

\* glob matched nothing (calibrate_data.py)
NoInput == [odd |-> "", byDay |-> <<>>]

\* a script that is not running
IdleBuild == dirIdx = 1 /\ csv = NoFile /\ sensors_js = <<>> /\ written = FALSE
IdleRamp  == rIdx = 1 /\ rfiles = NoInput /\ rstage = "idle" /\ recent_df = <<>> /\ saved = <<>>
IdleQaq   == qIdx = 1 /\ pc = "idle" /\ qfile = NoFile /\ qolder = <<>>
             /\ df = <<>> /\ rolling = <<>>
IdleKiosk == kIdx = 1 /\ kiosk_out = <<>> /\ kiosk_written = FALSE


-----------------------------------------------------------------------------
(* generate_json.py *)

HISTORY_HOURS == 24

SENSORS_WANTED == {"2021", "2022", "2040"}

KEEP_COLS == {"DATE", "CO", "NO", "NO2", "O3", "CO2", "PM2.5",
              "AQHI", "Top_AQHI_Contributor"}

\* sorted(BASE_DIR.iterdir()): two wanted sensor folders, a folder that is
\* not wanted and a plain file; the wanted sensor "2040" has no folder
BASE_DIR == <<"2021", "2022", "2041", "notes.txt">>

is_dir(entry) == entry \in {"2021", "2022", "2041"}

\* the numeric columns read per row, in the order build() reads them
NumericCols == <<"AQHI", "CO", "NO", "NO2", "O3", "CO2", "PM25">>

\* round(float(x), nd) on thousandths: nd = 3 keeps x, nd = 2 rounds to
\* tens, nd = 1 to hundreds
round(x, nd) ==
    LET unit == IF nd = 1 THEN 100 ELSE IF nd = 2 THEN 10 ELSE 1
    IN ((2 * x + unit) \div (2 * unit)) * unit

\* "round(float(c), nd) if pd.notna(c) else None"
rounded(c, nd) == IF notna(c) THEN Num(round(c.v, nd)) ELSE None

\* "c if isinstance(c, str) else None"
str_or_none(c) == IF c.tag = "str" THEN c ELSE None

\* to_pacific_iso: None for NaT, else the instant, rendered
to_pacific_iso(ts) == IF isna(ts) THEN None ELSE ts

\* a DATE cell written with zone information: x is its wall-clock reading,
\* z the suffix ("Z" or "+00:00"); Num(x) is a reading without a zone
Zoned(x, z) == [tag |-> "num", v |-> x, s |-> z]

\* hours the civil zone (PACIFIC, standard time) is behind UTC
UtcOffset == 8

\* lines 164-167: .str.replace(r"Z$", ""): a trailing Z is dropped
strip_Z(c) == IF c.tag = "num" /\ c.s = "Z" THEN Num(c.v) ELSE c

\* pd.to_datetime(..., errors="coerce") on one cell of the DATE column: a
\* reading with an offset parses as a tz-aware timestamp
to_datetime_coerce(c) == IF c.tag = "num" THEN c ELSE NaN

\* line 169: PACIFIC.localize(t) takes the reading of a naive t as Pacific
\* time and raises a ValueError on a tz-aware t
localize_raises(rows) ==
    \E i \in 1..Len(rows) : rows[i]["DATE"].tag = "num" /\ rows[i]["DATE"].s # ""

\* df.rename(columns={"Top_AQHI_Contributor": "PRIMARY", "PM2.5": "PM25"})
renamed(c) ==
    IF c = "Top_AQHI_Contributor" THEN "PRIMARY"
    ELSE IF c = "PM2.5" THEN "PM25" ELSE c

\* lines 152-161: the frame's columns after usecols, rename, and the two
\* columns added when missing
frame_cols(f) == {renamed(c) : c \in f.cols \cap KEEP_COLS} \cup {"PRIMARY", "PM25"}

\* one row of the frame: the file's row under the new names; a column added
\* by line 161 holds None
frame_row(f, r) ==
    [c \in frame_cols(f) |->
        IF c = "PRIMARY"
        THEN (IF "Top_AQHI_Contributor" \in f.cols THEN r["Top_AQHI_Contributor"] ELSE None)
        ELSE IF c = "PM25"
        THEN (IF "PM2.5" \in f.cols THEN r["PM2.5"] ELSE None)
        ELSE r[c]]

\* lines 164-169: DATE parsed row by row
parsed_rows(f) ==
    [i \in 1..Len(f.rows) |->
        [frame_row(f, f.rows[i]) EXCEPT !["DATE"] = to_datetime_coerce(strip_Z(@))]]

date_of(r) == r["DATE"].v

\* dropna(subset=["DATE"]) alone, the rows left in the order of the file:
\* not what line 171 does
dropna_unsorted(rows) ==
    {SelectSeq(rows, LAMBDA r : notna(r["DATE"]))}

\* line 171: dropna(subset=["DATE"]).sort_values("DATE")
dropna_sorted(rows) ==
    SortedOrders(SelectSeq(rows, LAMBDA r : notna(r["DATE"])))

\* lines 174-176: the rolling window, anchored at the newest row of the file
apply_window(rows) ==
    IF HISTORY_HOURS > 0 /\ rows # <<>>
    THEN LET cutoff == MaxOf({date_of(rows[i]) : i \in 1..Len(rows)}) - HISTORY_HOURS
         IN SelectSeq(rows, LAMBDA r : date_of(r) >= cutoff)
    ELSE rows

\* the exception reading the numeric columns of one row raises, or "":
\* r[c] is a KeyError when the file has no column c, float(c) a ValueError
\* when the cell is text
RECURSIVE cols_error(_, _)
cols_error(r, k) ==
    IF k > Len(NumericCols) THEN ""
    ELSE LET c == NumericCols[k] IN
         IF c \notin DOMAIN r THEN "KeyError"
         ELSE IF notna(r[c]) /\ r[c].tag = "str" THEN "ValueError"
         ELSE cols_error(r, k + 1)

row_error(r) == cols_error(r, 1)

\* lines 183-196
latest_of(last) ==
    [timestamp  |-> to_pacific_iso(last["DATE"]),
     aqhi       |-> rounded(last["AQHI"], 1),
     primary    |-> str_or_none(last["PRIMARY"]),
     pollutants |-> [co   |-> rounded(last["CO"], 3),
                     no   |-> rounded(last["NO"], 3),
                     no2  |-> rounded(last["NO2"], 3),
                     o3   |-> rounded(last["O3"], 3),
                     co2  |-> rounded(last["CO2"], 3),
                     pm25 |-> rounded(last["PM25"], 3)]]

\* lines 199-212
history_row(r) ==
    <<to_pacific_iso(r["DATE"]), rounded(r["AQHI"], 1), str_or_none(r["PRIMARY"]),
      rounded(r["CO"], 2), rounded(r["NO"], 2), rounded(r["NO2"], 2),
      rounded(r["O3"], 2), rounded(r["CO2"], 2), rounded(r["PM25"], 2)>>

history_of(rows) == [i \in 1..Len(rows) |-> history_row(rows[i])]

Skip      == [kind |-> "skip",  exc |-> "", entry |-> <<>>]
Raise(e)  == [kind |-> "raise", exc |-> e,  entry |-> <<>>]
Emit(blk) == [kind |-> "emit",  exc |-> "", entry |-> <<blk>>]

\* lines 171-229 for one order of the sorted frame
build_block(sid, rows) ==
    LET win == apply_window(rows) IN
    IF win = <<>> THEN Skip
    ELSE LET last == win[Len(win)]
             bad  == {i \in 1..Len(win) : row_error(win[i]) # ""}
         IN IF row_error(last) # "" THEN Raise(row_error(last))
            ELSE IF bad # {} THEN Raise(row_error(win[MinOf(bad)]))
            ELSE Emit([id |-> sid, latest |-> latest_of(last),
                       history |-> history_of(win)])

\* lines 147-229: what one pass of the loop body does with the newest
\* calibrated file f of sensor sid (kind "none": newest_csv found no file;
\* kind "bad": read_csv raised a ValueError)
build_sensor(sid, f) ==
    IF f.kind = "none" THEN {Skip}
    ELSE IF f.kind = "bad" THEN {Skip}
    ELSE IF "DATE" \notin frame_cols(f) THEN {Raise("KeyError")}
    ELSE IF localize_raises(parsed_rows(f)) THEN {Raise("ValueError")}
    ELSE {build_block(sid, rows) : rows \in dropna_sorted(parsed_rows(f))}

\* ---- the calibrated files the model offers build()

BuildDates == {Num(now - 48), Num(now - 24), Num(now - 2), Num(now),
               Num(now + 8), Str("bad")}

FileRow(date, kind) ==
    [c \in KEEP_COLS |->
        IF c = "DATE" THEN date
        ELSE IF kind = "nan" THEN NaN
        ELSE IF c = "AQHI" THEN (IF kind = "text" THEN Str("abc") ELSE Num(3456))
        ELSE IF c = "Top_AQHI_Contributor" THEN Str("NO2")
        ELSE IF c = "CO" THEN Num(1234)
        ELSE IF c = "NO" THEN Num(2345)
        ELSE IF c = "NO2" THEN Num(20155)
        ELSE IF c = "O3" THEN Num(30000)
        ELSE IF c = "CO2" THEN Num(400126)
        ELSE Num(10004)]

FileRows == {FileRow(d, k) : d \in BuildDates, k \in {"full", "nan", "text"}}

ColumnSets == {KEEP_COLS, KEEP_COLS \ {"DATE"}, KEEP_COLS \ {"CO"},
               KEEP_COLS \ {"PM2.5", "Top_AQHI_Contributor"}}

\* a column the file lacks holds nothing in any row
Mask(cols, r) == [c \in KEEP_COLS |-> IF c \in cols THEN r[c] ELSE NaN]

BadFile == [kind |-> "bad",  cols |-> {}, rows |-> <<>>]

\* files whose DATE column is written in UTC, every row with the same
\* suffix: readings of the instants now - 2 and now
ZonedFiles ==
    {[kind |-> "csv", cols |-> KEEP_COLS, rows |-> rs] :
        rs \in UNION {SeqUpTo({FileRow(Zoned(now + UtcOffset - h, z), "full") : h \in {0, 2}},
                              MaxRows) \ {<<>>} : z \in {"Z", "+00:00"}}}

CalibratedFiles ==
    {NoFile, BadFile} \cup
    {[kind |-> "csv", cols |-> cs, rows |-> [i \in DOMAIN rs |-> Mask(cs, rs[i])]] :
        cs \in ColumnSets, rs \in SeqUpTo(FileRows, MaxRows)}
    \cup ZonedFiles

\* ---- actions

\* lines 141-145: an entry that is no directory, or a sensor not wanted
SkipEntry ==
    /\ raised = "" /\ ~written /\ dirIdx <= Len(BASE_DIR)
    /\ ~(is_dir(BASE_DIR[dirIdx]) /\ BASE_DIR[dirIdx] \in SENSORS_WANTED)
    /\ dirIdx' = dirIdx + 1
    /\ csv' = NoFile
    /\ UNCHANGED <<now, raised, sensors_js, written, rampVars, qaqVars, kioskVars>>

\* lines 147-235: one wanted sensor folder
BuildSensor ==
    /\ raised = "" /\ ~written /\ dirIdx <= Len(BASE_DIR)
    /\ is_dir(BASE_DIR[dirIdx]) /\ BASE_DIR[dirIdx] \in SENSORS_WANTED
    /\ \E f \in CalibratedFiles :
         \E o \in build_sensor(BASE_DIR[dirIdx], f) :
            /\ csv' = f
            /\ raised' = o.exc
            /\ sensors_js' = sensors_js \o o.entry
            /\ dirIdx' = IF o.kind = "raise" THEN dirIdx ELSE dirIdx + 1
    /\ UNCHANGED <<now, written, rampVars, qaqVars, kioskVars>>

\* lines 248-250: build() returned, the JSON is written
WriteJson ==
    /\ raised = "" /\ ~written /\ dirIdx > Len(BASE_DIR)
    /\ written' = TRUE
    /\ UNCHANGED <<now, raised, dirIdx, csv, sensors_js, rampVars, qaqVars, kioskVars>>


InitBuild == now = Clock /\ raised = "" /\ IdleBuild /\ IdleRamp /\ IdleQaq /\ IdleKiosk

NextBuild == SkipEntry \/ BuildSensor \/ WriteJson

SpecBuild == InitBuild /\ [][NextBuild]_vars



-----------------------------------------------------------------------------
(* calibrate_data.py *)

\* a prefix of sensor_ids
ramp_sensor_ids == <<"2021", "2022">>

RAMP_HOURS == 24

\* the columns calibration_functions names, in the dict's order
RampCols == <<"CO", "NO", "NO2", "O3", "CO2", "T", "RH",
              "PM1.0", "PM2.5", "PM10", "WD", "WS">>

RampColSet == {RampCols[i] : i \in 1..Len(RampCols)}

\* a cell of text that reads as the number x (a numeric cell of a column
\* that read_csv left as text)
NumStr(x) == [tag |-> "str", v |-> x, s |-> "numeric"]

\* calibration_functions[col](x) for a float x (NaN stays NaN)
calibration_functions(col, c) ==
    IF c.tag # "num" THEN c
    ELSE IF col = "CO"  THEN Num((c.v * 11) \div 10)
    ELSE IF col = "NO"  THEN Num((c.v * 9) \div 10)
    ELSE IF col = "NO2" THEN Num((c.v * 105) \div 100)
    ELSE IF col = "O3"  THEN Num((c.v * 12) \div 10)
    ELSE IF col = "T"   THEN Num(c.v + 500)
    ELSE IF col = "WS"  THEN Num((c.v * 11) \div 10)
    ELSE c

\* x * 1.1 and x + 0.5 raise a TypeError when x is a str; "lambda x: x"
\* hands it back
calibration_raises(col, c) ==
    c.tag = "str" /\ col \in {"CO", "NO", "NO2", "O3", "T", "WS"}

\* calculate_aqi: 0.8 * PM2.5 + 0.2 * O3, None on any exception
calculate_aqi(row) ==
    IF "PM2.5" \notin DOMAIN row \/ "O3" \notin DOMAIN row THEN None
    ELSE IF row["PM2.5"].tag = "str" \/ row["O3"].tag = "str" THEN None
    ELSE IF isna(row["PM2.5"]) \/ isna(row["O3"]) THEN NaN
    ELSE Num((8 * row["PM2.5"].v + 2 * row["O3"].v) \div 10)

\* the day (date) an hour falls on
DayOf(h) == h \div 24

\* pd.read_csv: a column holding some text is read as text in every row
\* that is not empty
as_read(rows) ==
    LET textual(c) == \E i \in 1..Len(rows) : rows[i][c].tag = "str"
    IN [i \in 1..Len(rows) |->
          [c \in DOMAIN rows[i] |->
              IF c # "DATE" /\ textual(c) /\ rows[i][c].tag = "num"
              THEN NumStr(rows[i][c].v) ELSE rows[i][c]]]

\* lines 76, 29-37: some name matched by "<sensor>_*.csv" is not
\* "<sensor>_YYYY-MM-DD.csv"
parse_filename_date_raises(inp) == inp.odd # ""

\* lines 77-82
last_two_dates(inp) ==
    LET days == DOMAIN inp.byDay
        top  == MaxOf(days)
        rest == days \ {top}
    IN IF rest = {} THEN <<top>> ELSE <<MaxOf(rest), top>>

\* lines 85-95: the frames read, oldest date first; a file read_csv
\* rejects is skipped
RECURSIVE read_dfs(_, _, _)
read_dfs(inp, dates, k) ==
    IF k > Len(dates) THEN <<>>
    ELSE (IF inp.byDay[dates[k]].ok THEN <<inp.byDay[dates[k]]>> ELSE <<>>)
         \o read_dfs(inp, dates, k + 1)

\* line 101: pd.concat(dfs, ignore_index=True): the union of the columns,
\* a column a file lacks is NaN in its rows
RECURSIVE concat_rows(_, _, _)
concat_rows(dfs, cols, k) ==
    IF k > Len(dfs) THEN <<>>
    ELSE [i \in 1..Len(dfs[k].rows) |->
            [c \in cols |-> IF c \in dfs[k].cols THEN dfs[k].rows[i][c] ELSE NaN]]
         \o concat_rows(dfs, cols, k + 1)

concat(dfs) == concat_rows(dfs, UNION {dfs[k].cols : k \in 1..Len(dfs)}, 1)

\* lines 104-111: pd.to_datetime raises on a DATE that does not parse, and
\* joined_df['DATE'] on a missing column; both are caught
date_conversion_fails(joined, cols) ==
    \/ "DATE" \notin cols
    \/ \E i \in 1..Len(joined) : joined[i]["DATE"].tag = "str"

\* lines 114-115: rows from the past 24 hours of the run's clock
past_24h_rows(joined) ==
    SelectSeq(joined, LAMBDA r : r["DATE"].tag = "num" /\ r["DATE"].v >= now - RAMP_HOURS)

\* lines 121-123: the first column, in the dict's order, whose apply raises
apply_raises(rows, cols) ==
    \E k \in 1..Len(RampCols) : \E i \in 1..Len(rows) :
        RampCols[k] \in cols /\ calibration_raises(RampCols[k], rows[i][RampCols[k]])

\* lines 121-126
calibrated_rows(rows, cols) ==
    [i \in 1..Len(rows) |->
        LET cal == [c \in cols |->
                      IF c \in RampColSet THEN calibration_functions(c, rows[i][c])
                      ELSE rows[i][c]]
        IN [c \in cols \cup {"AQI"} |-> IF c = "AQI" THEN calculate_aqi(cal) ELSE cal[c]]]

RampOut(stage, exc, frame, file) ==
    [stage |-> stage, exc |-> exc, frame |-> frame, file |-> file]

\* lines 69-132: one pass of the loop body over the raw files inp of a sensor
calibrate_sensor(sensor, inp) ==
    IF DOMAIN inp.byDay = {} /\ inp.odd = "" THEN RampOut("nofiles", "", <<>>, <<>>)
    ELSE IF parse_filename_date_raises(inp) THEN RampOut("raised", "ValueError", <<>>, <<>>)
    ELSE LET dates == last_two_dates(inp)
             dfs   == read_dfs(inp, dates, 1)
         IN
         IF dfs = <<>> THEN RampOut("nodfs", "", <<>>, <<>>)
         ELSE LET cols   == UNION {dfs[k].cols : k \in 1..Len(dfs)}
                  joined == concat(dfs)
              IN
              IF date_conversion_fails(joined, cols) THEN RampOut("dateerr", "", joined, <<>>)
              ELSE LET recent == past_24h_rows(joined) IN
                   IF recent = <<>> THEN RampOut("norecent", "", recent, <<>>)
                   ELSE IF apply_raises(recent, cols) THEN RampOut("raised", "TypeError", recent, <<>>)
                   ELSE RampOut("saved", "", calibrated_rows(recent, cols),
                                <<[sensor |-> sensor, first |-> dates[1],
                                   last |-> dates[Len(dates)],
                                   nrows |-> Len(recent)]>>)

\* ---- the raw files the model offers the loop

RampDates == {Num(now - 48), Num(now - 25), Num(now - 24), Num(now - 1), Num(now + 8)}

RampRow(date, kind) ==
    [c \in RampColSet \cup {"DATE"} |->
        IF c = "DATE" THEN date
        ELSE IF kind = "nan" THEN NaN
        ELSE IF c = "CO" /\ kind = "text" THEN Str("abc")
        ELSE IF c = "NO2" THEN Num(20000)
        ELSE IF c = "O3" THEN Num(30000)
        ELSE IF c = "PM2.5" THEN Num(10000)
        ELSE Num(1000)]

RampRows == {RampRow(d, "num") : d \in RampDates}
            \cup {RampRow(Num(now - 1), "nan"), RampRow(Num(now - 1), "text"),
                  RampRow(Str("bad"), "num")}

RampAllCols == RampColSet \cup {"DATE"}

Unreadable == [ok |-> FALSE, cols |-> {}, rows |-> <<>>]

RawFiles ==
    {Unreadable,
     [ok |-> TRUE, cols |-> RampAllCols \ {"DATE"},
      rows |-> <<[c \in RampAllCols \ {"DATE"} |-> Num(1000)]>>]}
    \cup {[ok |-> TRUE, cols |-> RampAllCols, rows |-> as_read(rs)] :
             rs \in SeqUpTo(RampRows, MaxRows)}

Today == DayOf(now)

OldFile == [ok |-> TRUE, cols |-> RampAllCols,
            rows |-> <<RampRow(Num(now - 48), "num"), RampRow(Num(now - 24), "num")>>]

\* the files "<sensor>_*.csv" matches: at most one per date, of the two
\* latest dates and (with fixed content) the date before, and possibly a
\* file whose name is not "<sensor>_<date>.csv"
RawInputs ==
    {[odd |-> "", byDay |-> m] :
        m \in UNION {[D -> RawFiles] : D \in SUBSET {Today - 1, Today}}}
    \cup
    {[odd |-> o, byDay |-> [d \in {Today} |-> OldFile]] : o \in {"parts", "notdate"}}
    \cup
    {[odd |-> "", byDay |-> [d \in {Today - 2, Today - 1, Today} |->
                               IF d = Today - 2 THEN OldFile ELSE m[d]]] :
        m \in [{Today - 1, Today} -> {Unreadable, OldFile}]}

\* ---- actions

\* lines 68-132: the loop body for the sensor at rIdx
CalibrateSensor ==
    /\ raised = "" /\ rstage = "head" /\ rIdx <= Len(ramp_sensor_ids)
    /\ \E inp \in RawInputs :
         LET o == calibrate_sensor(ramp_sensor_ids[rIdx], inp) IN
            /\ rfiles' = inp
            /\ rstage' = o.stage
            /\ raised' = o.exc
            /\ recent_df' = o.frame
            /\ saved' = saved \o o.file
    /\ UNCHANGED <<now, rIdx, buildVars, qaqVars, kioskVars>>

\* line 68: the loop moves to the next sensor; the names of the body are
\* bound anew
NextSensor ==
    /\ raised = "" /\ rstage \notin {"head", "done", "idle"}
    /\ rIdx' = rIdx + 1
    /\ rstage' = "head"
    /\ rfiles' = NoInput
    /\ recent_df' = <<>>
    /\ UNCHANGED <<now, raised, saved, buildVars, qaqVars, kioskVars>>

\* the loop is over: the script ends
RampDone ==
    /\ raised = "" /\ rstage = "head" /\ rIdx > Len(ramp_sensor_ids)
    /\ rstage' = "done"
    /\ UNCHANGED <<now, raised, rIdx, rfiles, recent_df, saved, buildVars, qaqVars, kioskVars>>

InitRamp == now = Clock /\ raised = "" /\ IdleBuild /\ IdleQaq /\ IdleKiosk
            /\ rIdx = 1 /\ rfiles = NoInput /\ rstage = "head"
            /\ recent_df = <<>> /\ saved = <<>>

NextRamp == CalibrateSensor \/ NextSensor \/ RampDone

SpecRamp == InitRamp /\ [][NextRamp]_vars

-----------------------------------------------------------------------------
(* calibrate_qaq.py *)

\* a prefix of sensor_ids
qaq_sensor_ids == <<"MOD-00616", "MOD-00632">>

QAQ_HOURS == 24

ROLLING_HOURS == 3

\* the AQHI coefficients, in millionths
BETA_NO2  == 871
BETA_O3   == 537
BETA_PM25 == 487

\* varmap, in the dict's order: raw column, standard column
varmap == << <<"gases.co.we", "CO">>, <<"gases.no.we", "NO">>,
             <<"gases.no2.we", "NO2">>, <<"gases.o3.we", "O3">>,
             <<"gases.co2.raw", "CO2">>, <<"met.temp", "T">>,
             <<"met.rh", "RH">>, <<"opc.pm1", "PM1.0">>,
             <<"opc.pm25", "PM2.5">>, <<"opc.pm10", "PM10">> >>

RawCols == {varmap[k][1] : k \in 1..Len(varmap)}
StdCols == {varmap[k][2] : k \in 1..Len(varmap)}

raw_of(std) == varmap[CHOOSE k \in 1..Len(varmap) : varmap[k][2] = std][1]

\* pd.to_numeric(x, errors="coerce") on one cell
to_numeric_coerce(c) ==
    IF c.tag = "num" THEN c
    ELSE IF c.tag = "str" /\ c.s = "numeric" THEN Num(c.v)
    ELSE NaN

\* calibration_functions[std](x) of calibrate_qaq.py, x a float
qaq_calibration(std, c) ==
    IF c.tag # "num" THEN c
    ELSE IF std = "CO"  THEN Num((c.v * 11) \div 10)
    ELSE IF std = "NO"  THEN Num((c.v * 9) \div 10)
    ELSE IF std = "NO2" THEN Num((c.v * 105) \div 100)
    ELSE IF std = "O3"  THEN Num((c.v * 12) \div 10)
    ELSE IF std = "T"   THEN Num(c.v + 500)
    ELSE c

\* calibration_functions["TE"](None): lambda x: "QAQ"
calibration_TE == Str("QAQ")

\* lines 88-92: the row put in place of stale data
fallback_row ==
    [c \in StdCols \cup {"TE", "AQHI", "DATE", "Top_AQHI_Contributor"} |->
        IF c = "DATE" THEN NumStr(now)
        ELSE IF c = "Top_AQHI_Contributor" THEN Str("-1")
        ELSE Num(-1000)]

\* lines 96-102 on one row of a frame with the columns cols
calibrated_row(r) ==
    [c \in DOMAIN r \cup StdCols \cup {"TE"} |->
        IF c = "TE" THEN calibration_TE
        ELSE IF c \in StdCols
        THEN (IF raw_of(c) \in DOMAIN r
              THEN qaq_calibration(c, to_numeric_coerce(r[raw_of(c)]))
              ELSE NaN)
        ELSE r[c]]

\* rolling("3h"): the rows in the window of row i of a frame sorted by its
\* DATE index: the window is (DATE[i] - 3h, DATE[i]] and ends at row i
window_of(rows, i) ==
    {j \in 1..i : rows[j]["DATE"].v > rows[i]["DATE"].v - ROLLING_HOURS}

RECURSIVE SumOver(_, _, _)
SumOver(rows, col, J) ==
    IF J = {} THEN 0
    ELSE LET j == CHOOSE x \in J : TRUE
         IN rows[j][col].v + SumOver(rows, col, J \ {j})

\* .mean() of a window: the mean of its values that are not NaN, NaN when
\* it has none (min_periods is 1 for a time window)
mean_over(rows, col, J) ==
    LET have == {j \in J : notna(rows[j][col])}
    IN IF have = {} THEN NaN
       ELSE Num(SumOver(rows, col, have) \div Cardinality(have))

\* line 113
rolling_mean(rows) ==
    [i \in 1..Len(rows) |->
        [c \in {"NO2", "O3", "PM2.5"} |-> mean_over(rows, c, window_of(rows, i))]]

\* np.exp(x) - 1 for x in millionths, to second order
Expm1(x) == x + ((x \div 10) * (x \div 10)) \div 20000

\* lines 116-118: the risk terms of one row, in millionths; m is a rolling
\* mean in thousandths
NO2_component(m)  == IF isna(m) THEN NaN ELSE Num(Expm1(((BETA_NO2 * m.v) \div 1000) \div 1000))
O3_component(m)   == IF isna(m) THEN NaN ELSE Num(Expm1(((BETA_O3 * m.v) \div 1000) \div 1000))
PM25_component(m) == IF isna(m) THEN NaN ELSE Num(Expm1((BETA_PM25 * m.v) \div 1000))

\* a sum that skips what is missing, as Series.sum() would: not what line
\* 121 does
component_sum_skipna(a, b, c) ==
    Num((IF isna(a) THEN 0 ELSE a.v) + (IF isna(b) THEN 0 ELSE b.v)
        + (IF isna(c) THEN 0 ELSE c.v))

\* line 121: a NaN term makes the sum NaN
component_sum(a, b, c) ==
    IF isna(a) \/ isna(b) \/ isna(c) THEN NaN ELSE Num(a.v + b.v + c.v)

\* lines 122-124: component / component_sum.  x / 0 is +-inf, 0 / 0 is NaN
Inf(sign) == [tag |-> "inf", v |-> sign, s |-> ""]

contrib(c, sum) ==
    IF isna(c) \/ isna(sum) THEN NaN
    ELSE IF sum.v = 0 THEN (IF c.v = 0 THEN NaN ELSE Inf(IF c.v > 0 THEN 1 ELSE -1))
    ELSE [tag |-> "ratio", v |-> c.v, s |-> IF sum.v > 0 THEN "+" ELSE "-"]

\* the order of two contributions of one row (they share the divisor)
contrib_less(x, y) ==
    IF x.tag = "inf" THEN x.v < y.v
    ELSE IF x.s = "+" THEN x.v < y.v ELSE y.v < x.v

\* line 127: (10 / 10.4) * 100 * component_sum, in thousandths
AQHI_of(sum) == IF isna(sum) THEN NaN ELSE Num((sum.v * 10) \div 104)

\* line 130: idxmax(axis=1) over NO2_contrib, O3_contrib, PM25_contrib and
\* .str.replace("_contrib", ""): the first column holding the greatest
\* value that is not NaN; NaN when the three are NaN
idxmax_contrib(n, o, p) ==
    LET named == << <<"NO2", n>>, <<"O3", o>>, <<"PM25", p>> >>
        have  == {k \in 1..3 : notna(named[k][2])}
        best  == {k \in have : \A l \in have : ~contrib_less(named[k][2], named[l][2])}
    IN IF have = {} THEN NaN ELSE Str(named[MinOf(best)][1])

\* lines 113-130 on row r with rolling means m
aqhi_row(r, m) ==
    LET n   == NO2_component(m["NO2"])
        o   == O3_component(m["O3"])
        p   == PM25_component(m["PM2.5"])
        sum == component_sum(n, o, p)
        cn  == contrib(n, sum)
        co  == contrib(o, sum)
        cp  == contrib(p, sum)
    IN [c \in DOMAIN r \cup {"NO2_contrib", "O3_contrib", "PM25_contrib", "AQHI",
                             "Top_AQHI_Contributor"} |->
          IF c = "NO2_contrib" THEN cn
          ELSE IF c = "O3_contrib" THEN co
          ELSE IF c = "PM25_contrib" THEN cp
          ELSE IF c = "AQHI" THEN AQHI_of(sum)
          ELSE IF c = "Top_AQHI_Contributor" THEN idxmax_contrib(cn, co, cp)
          ELSE r[c]]

\* lines 140-154 after reset_index: the series computed from "rolling"
\* still carry the DATE index, the frame has a RangeIndex, so every value
\* assigned is NaN
realigned_row(r) ==
    [c \in DOMAIN r |->
        IF c \in {"NO2_contrib", "O3_contrib", "PM25_contrib", "AQHI",
                  "Top_AQHI_Contributor"} THEN NaN ELSE r[c]]

HasDuplicateDates(rows) ==
    \E i, j \in 1..Len(rows) : i # j /\ rows[i]["DATE"].v = rows[j]["DATE"].v

\* ---- the raw files the model offers the loop

\* raw readings (NO2, O3, PM2.5) in thousandths, or text, or nothing
RawTriples == { <<Num(100000), Num(10000), Num(5000)>>,
                <<Num(1000), Num(1000), Num(50000)>>,
                <<Num(0), Num(0), Num(0)>>,
                <<Num(-20000), Num(-10000), Num(-5000)>>,
                <<NaN, Num(10000), Num(5000)>>,
                <<Str("abc"), Num(100000), Num(1000)>> }

QaqAllCols == RawCols \cup {"DATE", "timestamp_local"}

QaqRow(date, t) ==
    [c \in QaqAllCols |->
        IF c = "DATE" THEN date
        ELSE IF c = "timestamp_local" THEN Str("ts")
        ELSE IF c = "gases.no2.we" THEN t[1]
        ELSE IF c = "gases.o3.we" THEN t[2]
        ELSE IF c = "opc.pm25" THEN t[3]
        ELSE Num(1000)]

QaqHours == {now - 30, now - 3, now - 2, now}

Restrict(r, cols) == [c \in cols |-> r[c]]

\* the frames read_csv may return; the DATE column holds text as read_csv
\* leaves it (asText), or datetimes
QaqFrames(asText) ==
    {[kind |-> "csv", cols |-> cs, rows |-> [i \in DOMAIN rs |-> Restrict(rs[i], cs)]] :
        rs \in SeqUpTo({QaqRow(IF asText THEN NumStr(h) ELSE Num(h), t) :
                           h \in QaqHours, t \in RawTriples}, MaxRows),
        cs \in {QaqAllCols, QaqAllCols \ {"gases.no2.we"}}}

\* what the loop finds for a sensor: no file, a file read_csv rejects, a
\* frame without "timestamp_local" or without "DATE", or a frame
QaqFiles ==
    {NoFile, BadFile}
    \cup QaqFrames(TRUE)
    \cup {[f EXCEPT !.cols = @ \ {x}, !.rows = [i \in DOMAIN @ |-> Restrict(@[i], f.cols \ {x})]] :
            f \in {g \in QaqFrames(TRUE) : Len(g.rows) = 1 /\ g.cols = QaqAllCols},
            x \in {"DATE", "timestamp_local"}}

\* lines 63-69: glob finds every "<sensor>-*.csv" and only the file
\* modified last is read; the rows of the other files: none, or a reading
\* from 24 hours ago in the file of the day before
OlderParts(asText) ==
    {<<>>,
     <<QaqRow(IF asText THEN NumStr(now - QAQ_HOURS) ELSE Num(now - QAQ_HOURS),
              <<Num(1000), Num(1000), Num(50000)>>)>>}

\* ---- actions

\* lines 62-81
QaqLoad ==
    /\ raised = "" /\ pc = "head" /\ qIdx <= Len(qaq_sensor_ids)
    /\ \E f \in QaqFiles, o \in OlderParts(TRUE) :
         /\ qfile' = f
         /\ qolder' = IF f = NoFile THEN <<>> ELSE o
         /\ IF f.kind = "csv" /\ "timestamp_local" \in f.cols
            THEN pc' = "read" /\ df' = f.rows
            ELSE pc' = "skipped" /\ df' = <<>>
    /\ UNCHANGED <<now, raised, qIdx, rolling, buildVars, rampVars, kioskVars>>

\* lines 83-92: df["DATE"] is a KeyError without the column; comparing
\* cells that are not datetimes with past_24h is a TypeError; a frame left
\* empty is replaced by the fallback row
QaqFilter ==
    /\ raised = "" /\ pc = "read"
    /\ IF "DATE" \notin qfile.cols
       THEN raised' = "KeyError" /\ pc' = "raised" /\ df' = df
       ELSE IF \E i \in 1..Len(df) : df[i]["DATE"].tag # "num"
       THEN raised' = "TypeError" /\ pc' = "raised" /\ df' = df
       ELSE LET kept == SelectSeq(df, LAMBDA r : r["DATE"].v >= now - QAQ_HOURS)
            IN /\ df' = IF kept = <<>> THEN <<fallback_row>> ELSE kept
               /\ pc' = "filtered"
               /\ raised' = raised
    /\ UNCHANGED <<now, qIdx, qfile, qolder, rolling, buildVars, rampVars, kioskVars>>

\* lines 95-102
QaqCalibrate ==
    /\ raised = "" /\ pc = "filtered"
    /\ df' = [i \in 1..Len(df) |-> calibrated_row(df[i])]
    /\ pc' = "calibrated"
    /\ UNCHANGED <<now, raised, qIdx, qfile, qolder, rolling, buildVars, rampVars, kioskVars>>

\* lines 104-130: sort by DATE (rows of equal DATE in any order); the
\* three columns are always there after the calibration, so line 111 is
\* never taken; rolling("3h") is a ValueError on an index that does not
\* hold datetimes
QaqComputeAQHI ==
    /\ raised = "" /\ pc = "calibrated"
    /\ IF \E i \in 1..Len(df) : df[i]["DATE"].tag # "num"
       THEN raised' = "ValueError" /\ pc' = "raised" /\ df' = df /\ rolling' = rolling
       ELSE \E srt \in SortedOrders(df) :
               /\ rolling' = rolling_mean(srt)
               /\ df' = [i \in 1..Len(srt) |-> aqhi_row(srt[i], rolling_mean(srt)[i])]
               /\ pc' = "aqhi"
               /\ raised' = raised
    /\ UNCHANGED <<now, qIdx, qfile, qolder, buildVars, rampVars, kioskVars>>

\* lines 133-158: the second computation assigns series indexed by DATE to
\* the re-indexed frame (a ValueError when the DATE index has duplicates),
\* then "desired_cols" is a NameError; line 169 is never reached
QaqReorder ==
    /\ raised = "" /\ pc = "aqhi"
    /\ IF HasDuplicateDates(df)
       THEN raised' = "ValueError" /\ df' = df
       ELSE raised' = "NameError" /\ df' = [i \in 1..Len(df) |-> realigned_row(df[i])]
    /\ pc' = "raised"
    /\ UNCHANGED <<now, qIdx, qfile, qolder, rolling, buildVars, rampVars, kioskVars>>

\* line 62: the loop moves on after a "continue"
QaqNextSensor ==
    /\ raised = "" /\ pc = "skipped"
    /\ qIdx' = qIdx + 1
    /\ pc' = "head"
    /\ qfile' = NoFile /\ qolder' = <<>> /\ df' = <<>> /\ rolling' = <<>>
    /\ UNCHANGED <<now, raised, buildVars, rampVars, kioskVars>>

QaqDone ==
    /\ raised = "" /\ pc = "head" /\ qIdx > Len(qaq_sensor_ids)
    /\ pc' = "done"
    /\ UNCHANGED <<now, raised, qIdx, qfile, qolder, df, rolling, buildVars, rampVars, kioskVars>>

\* the script as it runs on the files of data/
InitQaq == now = Clock /\ raised = "" /\ IdleBuild /\ IdleRamp /\ IdleKiosk
           /\ qIdx = 1 /\ pc = "head" /\ qfile = NoFile /\ qolder = <<>>
           /\ df = <<>> /\ rolling = <<>>

NextQaq == QaqLoad \/ QaqFilter \/ QaqCalibrate \/ QaqComputeAQHI
           \/ QaqNextSensor \/ QaqDone

SpecQaq == InitQaq /\ [][NextQaq]_vars

\* the loop body from line 83 on, on a frame whose DATE column holds
\* datetimes (what rolling("3h") needs)
InitAqhi == now = Clock /\ raised = "" /\ IdleBuild /\ IdleRamp /\ IdleKiosk
            /\ qIdx = 1 /\ pc = "read" /\ qfile \in QaqFrames(FALSE)
            /\ qolder \in OlderParts(FALSE)
            /\ df = qfile.rows /\ rolling = <<>>

NextAqhi == QaqFilter \/ QaqCalibrate \/ QaqComputeAQHI \/ QaqReorder

SpecAqhi == InitAqhi /\ [][NextAqhi]_vars

-----------------------------------------------------------------------------
(* hellolamppost_integration.py, run on the snapshot build() wrote *)

\* the default of dict.get(..., "N/A")
NA == Str("N/A")

\* thresholds of aqhi_label, in thousandths
LOW_MAX      == 3000
MODERATE_MAX == 6000
HIGH_MAX     == 10000

\* lines 21-30: v <= 3 is a TypeError when v is None or a string
aqhi_label_raises(v) == v # NA /\ v.tag # "num"

aqhi_label(v) ==
    IF v = NA THEN "no data"
    ELSE IF v.v <= LOW_MAX THEN "Low health risk"
    ELSE IF v.v <= MODERATE_MAX THEN "Moderate health risk"
    ELSE IF v.v <= HIGH_MAX THEN "High health risk"
    ELSE "Very high health risk"

\* int(round(x)) on thousandths: to the nearest integer, a half to the
\* even one
round_int(x) ==
    LET q == x \div 1000
        r == x % 1000
    IN IF r > 500 \/ (r = 500 /\ q % 2 = 1) THEN q + 1 ELSE q

\* str(primary).lower() as a key of latest["pollutants"], "" when it is none
pollutant_key(p) ==
    IF p = "CO" THEN "co" ELSE IF p = "NO" THEN "no" ELSE IF p = "NO2" THEN "no2"
    ELSE IF p = "O3" THEN "o3" ELSE IF p = "CO2" THEN "co2"
    ELSE IF p = "PM25" THEN "pm25" ELSE ""

\* lines 77-83
conc_of(latest) ==
    IF latest.primary.tag = "str" /\ pollutant_key(latest.primary.s) # ""
    THEN latest.pollutants[pollutant_key(latest.primary.s)]
    ELSE NA

\* lines 85-92: the dict literal evaluates aqhi_label(aqhi_val), then
\* int(round(aqhi_val)), then round(conc, 2); each is a TypeError on None
kiosk_entry_raises(s) ==
    \/ aqhi_label_raises(s.latest.aqhi)
    \/ (s.latest.aqhi # NA /\ s.latest.aqhi.tag # "num")
    \/ (conc_of(s.latest) # NA /\ conc_of(s.latest).tag # "num")

kiosk_entry(s) ==
    [id              |-> s.id,
     label           |-> aqhi_label(s.latest.aqhi),
     value           |-> IF s.latest.aqhi = NA THEN NA
                         ELSE Num(round_int(s.latest.aqhi.v)),
     top_contributor |-> s.latest.primary,
     pollutant_concentration |->
         IF conc_of(s.latest) = NA THEN NA
         ELSE Num(round(conc_of(s.latest).v, 2))]

\* lines 67-92: the loop body for the entry at kIdx of the snapshot
KioskEntry ==
    /\ written /\ raised = "" /\ ~kiosk_written /\ kIdx <= Len(sensors_js)
    /\ IF kiosk_entry_raises(sensors_js[kIdx])
       THEN raised' = "TypeError" /\ UNCHANGED <<kIdx, kiosk_out>>
       ELSE /\ kiosk_out' = Append(kiosk_out, kiosk_entry(sensors_js[kIdx]))
            /\ kIdx' = kIdx + 1
            /\ raised' = raised
    /\ UNCHANGED <<now, kiosk_written, buildVars, rampVars, qaqVars>>

\* line 94
KioskWrite ==
    /\ written /\ raised = "" /\ ~kiosk_written /\ kIdx > Len(sensors_js)
    /\ kiosk_written' = TRUE
    /\ UNCHANGED <<now, raised, kIdx, kiosk_out, buildVars, rampVars, qaqVars>>

NextKiosk == NextBuild \/ KioskEntry \/ KioskWrite

\* generate_json.py, then hellolamppost_integration.py on its output
SpecKiosk == InitBuild /\ [][NextKiosk]_vars

-----------------------------------------------------------------------------
(* calibrate_data.py, then generate_json.py on the files it wrote *)

\* calibrate_data.py lines 129-131: the path of a saved file: a plain file
\* of calibrated_data/, its dates written with dashes
output_file(rec) ==
    [parent  |-> "calibrated_data",
     sid     |-> rec.sensor,
     datesep |-> "-",
     is_dir  |-> FALSE]

\* generate_json.py lines 44-47: FILE_RE wants the dates written with
\* underscores
FILE_RE_match(entry) == entry.datesep = "_"

\* sorted(BASE_DIR.iterdir()) after the calibration run, in a tree that
\* held nothing before: one file per sensor saved, in the order of
\* sensor_ids
Listing == [k \in 1..Len(saved) |-> output_file(saved[k])]

\* generate_json.py lines 140-149 on the entry at dirIdx: a plain file is
\* passed over; newest_csv looks inside a sensor folder only
HandoffEntry ==
    /\ rstage = "done" /\ raised = "" /\ ~written /\ dirIdx <= Len(Listing)
    /\ LET e == Listing[dirIdx] IN
          ~(e.is_dir /\ e.sid \in SENSORS_WANTED /\ FILE_RE_match(e))
    /\ dirIdx' = dirIdx + 1
    /\ UNCHANGED <<now, raised, csv, sensors_js, written, rampVars, qaqVars, kioskVars>>

\* generate_json.py lines 248-250
HandoffWrite ==
    /\ rstage = "done" /\ raised = "" /\ ~written /\ dirIdx > Len(Listing)
    /\ written' = TRUE
    /\ UNCHANGED <<now, raised, dirIdx, csv, sensors_js, rampVars, qaqVars, kioskVars>>

NextHandoff == NextRamp \/ HandoffEntry \/ HandoffWrite

SpecHandoff == InitRamp /\ [][NextHandoff]_vars

-----------------------------------------------------------------------------
(* Claims *)

\* ---- what the last pass of build()'s loop was given

\* the loop has just handled a wanted sensor folder without raising
Handled == dirIdx > 1 /\ dirIdx <= Len(BASE_DIR) + 1 /\ raised = ""
           /\ is_dir(BASE_DIR[dirIdx - 1]) /\ BASE_DIR[dirIdx - 1] \in SENSORS_WANTED
           /\ ~written

HandledSid == BASE_DIR[dirIdx - 1]

\* the timestamps of the file's rows that parse
FileTimes(f) ==
    IF f.kind = "csv" /\ "DATE" \in f.cols
    THEN {f.rows[i]["DATE"].v : i \in {j \in 1..Len(f.rows) : f.rows[j]["DATE"].tag = "num"}}
    ELSE {}

\* the newest reading of the file is older than now - W
StaleFile(f) == FileTimes(f) # {} /\ MaxOf(FileTimes(f)) < now - HISTORY_HOURS

\* no partitions, an unparsable file, or a file with no usable row
EmptyFile(f) == FileTimes(f) = {}

EntriesOf(sid) == {i \in DOMAIN sensors_js : sensors_js[i].id = sid}

NoDataSnapshot(e) == e.latest = None /\ e.history = <<>>

(* C1: a sensor whose newest reading is older than now - W gets the snapshot
   {latest: "no data", history: []}; no reading older than now - W is
   reported as latest.  Stated of build(): it fails, the window of build()
   is anchored at the newest row of the file, not at now. *)
C1_StaleSensorHasNoData ==
    \A i \in DOMAIN sensors_js :
        LET e == sensors_js[i] IN
        \/ NoDataSnapshot(e)
        \/ (e.latest.timestamp.tag = "num"
            /\ e.latest.timestamp.v >= now - HISTORY_HOURS)

(* C2: a sensor with no calibrated file, or with files that are empty or
   unparsable, is still in the output, with {latest: "no data",
   history: []}.  It fails: build() leaves the sensor out. *)
C2_EmptySensorIsEmitted ==
    (Handled /\ EmptyFile(csv)) =>
        \E i \in EntriesOf(HandledSid) : NoDataSnapshot(sensors_js[i])


\* ---- calibrate_data.py: what the pass of the loop was given

\* the joined frame of the sensor handled last, as line 115 leaves it
RampBefore ==
    past_24h_rows(concat(read_dfs(rfiles, last_two_dates(rfiles), 1)))

(* C3: a failure or a no-data condition met while handling one sensor (a
   file name that does not parse, an unreadable file, a missing column, a
   malformed timestamp or value) never halts the run: no exception leaves
   the per-sensor loop.  Stated of calibrate_data.py: it fails,
   parse_filename_date raises outside any try. *)
C3_NoSensorHaltsRun == raised = ""

(* C5: the window assembled for a sensor from its raw partitions holds no
   two rows with the same timestamp.  Stated of the frame calibrate_data.py
   saves: it fails, pd.concat keeps both copies. *)
C5_WindowHasNoDuplicates ==
    rstage = "saved" =>
        \A i, j \in 1..Len(recent_df) :
            i # j => recent_df[i]["DATE"] # recent_df[j]["DATE"]

(* C10: calibration never raises, and a field with no value before it (an
   empty cell, or text that is no number) has no value after it.  Stated of
   calibrate_data.py: it fails, x * 1.1 on a text cell is a TypeError. *)
C10_CalibrationKeepsAbsence ==
    /\ ~(rstage = "raised" /\ raised = "TypeError")
    /\ rstage = "saved" =>
         \A i \in 1..Len(recent_df) : \A c \in RampColSet \cap DOMAIN RampBefore[i] :
             RampBefore[i][c].tag # "num" => isna(recent_df[i][c])

\* ---- calibrate_qaq.py

\* the file read has no row from the past 24 hours
QaqStale ==
    /\ qfile.kind = "csv" /\ "DATE" \in qfile.cols
    /\ \A i \in 1..Len(qfile.rows) : qfile.rows[i]["DATE"].v < now - QAQ_HOURS

ValueCols == StdCols \cup {"TE", "AQHI", "Top_AQHI_Contributor"}

(* C4: when a sensor's data is stale, no field of a row of its frame
   (pollutant and met fields, AQHI, top contributor, TE) carries a default
   number or a placeholder such as -1: every such field is "no value".
   It fails: lines 86-92 put -1 in every field. *)
C4_StaleRowsCarryNoValue ==
    (QaqStale /\ pc \in {"filtered", "calibrated", "aqhi"}) =>
        \A i \in 1..Len(df) : \A c \in ValueCols \cap DOMAIN df[i] : isna(df[i][c])

\* the rolling means of row i are all there
AllMeans(i) == \A c \in {"NO2", "O3", "PM2.5"} : notna(rolling[i][c])

\* the risk terms of row i as the script computes them
TermsOf(i) == << <<"NO2",  NO2_component(rolling[i]["NO2"])>>,
                 <<"O3",   O3_component(rolling[i]["O3"])>>,
                 <<"PM25", PM25_component(rolling[i]["PM2.5"])>> >>

(* C6: on every row whose three risk terms are there, Top_AQHI_Contributor
   is one of NO2, O3, PM2.5 and names a pollutant whose risk term is the
   greatest of the three, whatever the sign of the terms and of their sum.
   It fails: the script takes the argmax of term / sum. *)
C6_TopIsArgmaxOfRiskTerms ==
    pc = "aqhi" =>
        \A i \in 1..Len(df) :
            AllMeans(i) =>
                \E k \in 1..3 :
                    /\ df[i]["Top_AQHI_Contributor"] = Str(TermsOf(i)[k][1])
                    /\ \A l \in 1..3 : TermsOf(i)[l][2].v <= TermsOf(i)[k][2].v

\* the frame carries the values computed from the rolling means
Computed == pc = "aqhi" \/ (pc = "raised" /\ Len(rolling) = Len(df) /\ rolling # <<>>)

(* C7: on every row where at least one of the three trailing means is
   "no value", AQHI and the top contributor are "no value" too: not 0, not
   a number computed from the other pollutants, not a contributor picked
   among the terms that are there. *)
C7_AqhiNullPropagation ==
    Computed =>
        \A i \in 1..Len(df) :
            ~AllMeans(i) =>
                /\ isna(df[i]["AQHI"])
                /\ isna(df[i]["Top_AQHI_Contributor"])

\* a row with one mean missing and two present has been computed, beside
\* a row whose AQHI is a number
C7_Witness ==
    /\ pc = "aqhi"
    /\ \E i \in 1..Len(df) :
          /\ isna(rolling[i]["NO2"]) /\ notna(rolling[i]["O3"]) /\ notna(rolling[i]["PM2.5"])
          /\ isna(df[i]["AQHI"])
    /\ \E i \in 1..Len(df) : AllMeans(i) /\ df[i]["AQHI"].tag = "num"

\* exp(beta * mean) - 1 on the mean in its source units
risk_term(beta, m) == Expm1((beta * m.v) \div 1000)

(* C8: the three risk terms are exp(beta_X * mean_X) - 1 on the trailing
   mean in its source units, none of the means rescaled, and
   AQHI = (10 / 10.4) * 100 * (r_NO2 + r_O3 + r_PM25).  It fails: the
   script divides the NO2 and O3 means by 1000, not the PM2.5 mean. *)
C8_RiskTermsNotRescaled ==
    pc = "aqhi" =>
        \A i \in 1..Len(df) :
            AllMeans(i) =>
                df[i]["AQHI"] =
                    AQHI_of(Num(risk_term(BETA_NO2, rolling[i]["NO2"])
                                + risk_term(BETA_O3, rolling[i]["O3"])
                                + risk_term(BETA_PM25, rolling[i]["PM2.5"])))

\* the rows whose timestamp lies in (t - 3h, t], t the timestamp of row i
TimeWindow(i) ==
    {j \in 1..Len(df) : /\ df[j]["DATE"].v > df[i]["DATE"].v - ROLLING_HOURS
                        /\ df[j]["DATE"].v <= df[i]["DATE"].v}

(* C9: on every row t of the sorted frame and for each of NO2, O3, PM2.5,
   the rolling value is the mean of the values that are there among
   exactly the rows whose timestamp lies in (t - 3h, t], and "no value"
   only when none is.  It fails on rows that share a timestamp: the window
   of a row ends at the row itself. *)
C9_RollingMeanIsTimeBased ==
    pc = "aqhi" =>
        \A i \in 1..Len(df) : \A c \in {"NO2", "O3", "PM2.5"} :
            rolling[i][c] = mean_over(df, c, TimeWindow(i))

\* ---- generate_json.py: fields of the output

\* the columns that hold a field of latest / history, in history's order
FieldCols == <<"AQHI", "Top_AQHI_Contributor", "CO", "NO", "NO2", "O3", "CO2", "PM2.5">>

(* C11: a field (CO, NO, NO2, O3, CO2, PM2.5, AQHI, primary contributor)
   absent from the input, in one row or as a whole column, is emitted as an
   explicit null in its place, and its absence never stops the snapshot
   from being built.  Stated of build(): it fails, r["CO"] on a file
   without the column is a KeyError. *)
C11_AbsentFieldIsNull ==
    /\ (csv.kind = "csv" /\ "DATE" \in csv.cols) => raised # "KeyError"
    /\ Handled =>
         \A i \in EntriesOf(HandledSid) :
             \A j \in 1..Len(sensors_js[i].history) : \A k \in 1..Len(FieldCols) :
                 LET cell == sensors_js[i].history[j][k + 1] IN
                 /\ cell.tag \in {"none", "num", "str"}
                 /\ FieldCols[k] \notin csv.cols => cell = None

\* the instant a DATE cell of a file denotes, in hours of the civil zone
Instant(c) == IF c.s = "" THEN c.v ELSE c.v - UtcOffset

HasZone(f) ==
    f.kind = "csv" /\ "DATE" \in f.cols
    /\ \E i \in 1..Len(f.rows) : f.rows[i]["DATE"].tag = "num" /\ f.rows[i]["DATE"].s # ""

(* C12: a timestamp without zone information is taken as civil time; one
   with a trailing Z or a UTC offset is converted and denotes the same
   instant in the output, its digits are never re-read as local time, and
   it never causes a failure.  Stated of build(): it fails, a trailing Z is
   stripped and the digits localized, an offset makes localize raise. *)
C12_ZoneIsConverted ==
    /\ HasZone(csv) => raised = ""
    /\ Handled =>
         \A i \in EntriesOf(HandledSid) :
             \A j \in 1..Len(sensors_js[i].history) :
                 sensors_js[i].history[j][1].v \in
                     {Instant(csv.rows[k]["DATE"]) :
                         k \in {n \in 1..Len(csv.rows) : csv.rows[n]["DATE"].tag = "num"}}

\* ---- calibrate_qaq.py: the window and the raw files

\* the timestamps of the rows of all the raw files of the sensor
AvailTimes ==
    {qfile.rows[i]["DATE"].v : i \in 1..Len(qfile.rows)}
    \cup {qolder[i]["DATE"].v : i \in 1..Len(qolder)}

\* the timestamps of the window (the frame after line 83)
WindowTimes ==
    {df[i]["DATE"].v : i \in {j \in 1..Len(df) : df[j]["DATE"].tag = "num"}}

(* C13: when the raw partitions of a sensor together hold readings from
   now - W up to now, the window spans at least W hours; when all the data
   spans less than W hours, the window is all the data of the last W
   hours; however the data is split across partitions.  Stated of
   calibrate_qaq.py: it fails, only the file modified last is read. *)
C13_WindowCoverage ==
    (pc = "filtered" /\ ~QaqStale /\ AvailTimes # {}) =>
        /\ (now \in AvailTimes /\ now - QAQ_HOURS \in AvailTimes) =>
              /\ WindowTimes # {}
              /\ MaxOf(WindowTimes) - MinOf(WindowTimes) >= QAQ_HOURS
        /\ MaxOf(AvailTimes) - MinOf(AvailTimes) < QAQ_HOURS =>
              WindowTimes = {t \in AvailTimes : t >= now - QAQ_HOURS /\ t <= now}

(* C14: every row of a window produced for a sensor has a timestamp t
   with now - W <= t <= now; rows older than now - W and rows stamped
   later than now are left out, by every stage.  Stated of the frame
   calibrate_data.py saves: it fails, the filter has no upper bound. *)
C14_WindowBounds ==
    rstage = "saved" =>
        \A i \in 1..Len(recent_df) :
            /\ recent_df[i]["DATE"].v >= now - RAMP_HOURS
            /\ recent_df[i]["DATE"].v <= now

\* ---- generate_json.py: latest and history

\* how many rows of the file lie in the window build() keeps (a DATE that
\* parses, not older than the newest one by more than HISTORY_HOURS) and
\* carry the timestamp t
RowsAt(f, t) ==
    Cardinality({k \in 1..Len(f.rows) :
                    /\ f.rows[k]["DATE"].tag = "num"
                    /\ f.rows[k]["DATE"].v = t
                    /\ t >= MaxOf(FileTimes(f)) - HISTORY_HOURS})

(* C15: for every sensor emitted by build(), history holds every row of
   the window build() keeps, in non-decreasing timestamp order, and latest
   is the row with the greatest timestamp: its timestamp and AQHI are those
   of the last history entry, whatever the order of the rows in the file. *)
C15_LatestAndHistoryOrdered ==
    /\ \A i \in DOMAIN sensors_js :
          LET e == sensors_js[i]
              h == e.history
          IN /\ Len(h) >= 1
             /\ \A j \in 1..(Len(h) - 1) : h[j][1].v <= h[j + 1][1].v
             /\ \A j \in 1..Len(h) : h[j][1].v <= e.latest.timestamp.v
             /\ e.latest.timestamp = h[Len(h)][1]
             /\ e.latest.aqhi = h[Len(h)][2]
    /\ Handled =>
          \A i \in EntriesOf(HandledSid) :
              LET h == sensors_js[i].history IN
              \A t \in FileTimes(csv) \cup {h[j][1].v : j \in 1..Len(h)} :
                  Cardinality({j \in 1..Len(h) : h[j][1].v = t}) = RowsAt(csv, t)

\* a file whose rows are in descending order of time, with different AQHI,
\* has been emitted in ascending order
C15_Witness ==
    /\ Handled
    /\ Len(csv.rows) = 2
    /\ csv.rows[1]["DATE"].tag = "num" /\ csv.rows[2]["DATE"].tag = "num"
    /\ csv.rows[1]["DATE"].v > csv.rows[2]["DATE"].v
    /\ \E i \in EntriesOf(HandledSid) :
          /\ Len(sensors_js[i].history) = 2
          /\ sensors_js[i].history[1][1].v < sensors_js[i].history[2][1].v
          /\ sensors_js[i].latest.timestamp.v = csv.rows[1]["DATE"].v

(* C16: for every sensor entry of pollutant_data.json, also one whose
   latest.aqhi, latest.primary or concentration is null, the kiosk builder
   completes and emits an entry for that sensor, labelled "no data" when
   the AQHI is missing; a null never reaches a comparison or a rounding.
   It fails: aqhi_label(None) compares None <= 3. *)
C16_KioskToleratesNull ==
    /\ written => raised = ""
    /\ kiosk_written =>
         \A i \in DOMAIN sensors_js :
             \E k \in DOMAIN kiosk_out :
                 /\ kiosk_out[k].id = sensors_js[i].id
                 /\ isna(sensors_js[i].latest.aqhi) => kiosk_out[k].label = "no data"

(* C17: whenever a calibration run writes a calibrated file for a sensor
   of SENSORS_WANTED, a following build() finds that file through
   newest_csv and emits the sensor with the rows of the file in its
   history.  It fails: calibrate_data.py writes a plain file into
   calibrated_data/ with dashes in its dates, build() looks into sensor
   folders for names with underscores. *)
C17_HandoffFindsFile ==
    (rstage = "done" /\ written) =>
        \A k \in DOMAIN saved :
            saved[k].sensor \in SENSORS_WANTED =>
                \E i \in DOMAIN sensors_js :
                    /\ sensors_js[i].id = saved[k].sensor
                    /\ Len(sensors_js[i].history) = saved[k].nrows

=============================================================================
